---------------------------- MODULE Spec2Model ----------------------------
(***************************************************************************)
(* A model of cobra_color: the ANSI colour/style codec (_get_ansi_code),   *)
(* the segment model of ColorStr (from_str, __new__, __add__, __mul__, the *)
(* four views), ColorTemplate and the half-block branch of render_image.   *)
(*                                                                         *)
(* Python values are records tagged by their type in field t:              *)
(*   [t |-> "None"]                     None                               *)
(*   [t |-> "str",   v |-> chars]       str, a sequence of 1-char strings  *)
(*   [t |-> "int",   v |-> n]           int                                *)
(*   [t |-> "float", v |-> label]       a float (never an int)             *)
(*   [t |-> "list" | "tuple", v |-> s]  a re-iterable sequence of values   *)
(*   [t |-> "iter",  v |-> s]           a single-pass iterator; v holds    *)
(*                                      the items it has not yet yielded   *)
(*   [t |-> "uint8", v |-> n]           a numpy uint8 scalar (not an int)  *)
(*   [t |-> "ndarray", v |-> s]         a 1-D numpy array of uint8 scalars *)
(*   [t |-> "ColorStr", v, segs, colored]  a ColorStr: v is the content of *)
(*                                      the str base object                *)
(* The character ESC (\033) is written "ESC", U+2580 is written "U2580".   *)
(***************************************************************************)
EXTENDS Integers, Sequences, FiniteSets, TLC

VARIABLES
    args,       \* codec run: the argument objects [text, fg, bg, styles] as they are now
    call,       \* codec run: the last call, its arguments as passed and its outcome
    cur,        \* ColorStr session: the value the session variable is bound to
    last,       \* ColorStr session: the last operation, its operands and its outcome
    tpl,        \* template run: the private fields of the ColorTemplate object
    made,       \* template run: the options as they were when the template was constructed
    applied,    \* template run: the last format / __call__ invocation
    img,        \* render run: [mode, arr] the mode and the pixel array of the image
    rendered,   \* render run: the outcome of render_image
    console,    \* print run: _GLOBAL_CONSOLE_FUNC and the libraries and progress bars around it
    printed,    \* print run: the last smart_print / set_console_func call and what it did
    target,     \* format run: the class, its bases and the attribute key given to fmt_dict
    line        \* format run: the class of the key and the label fmt_dict shows for it

vars == <<args, call, cur, last, tpl, made, applied, img, rendered, console, printed, target, line>>

None == [t |-> "None"]
StrV(chars) == [t |-> "str", v |-> chars]
IntV(n) == [t |-> "int", v |-> n]
Idle == [t |-> "idle"]

---------------------------------------------------------------------------
(* Strings.                                                                *)

Digit == <<"0", "1", "2", "3", "4", "5", "6", "7", "8", "9">>

\* f"{n}" for an int n >= 0: its decimal digits.
RECURSIVE Dec(_)
Dec(n) == IF n < 10 THEN <<Digit[n + 1]>> ELSE Dec(n \div 10) \o <<Digit[(n % 10) + 1]>>

\* sep.join(parts)
RECURSIVE Join(_, _)
Join(parts, sep) ==
    IF parts = <<>> THEN <<>>
    ELSE IF Len(parts) = 1 THEN parts[1]
    ELSE parts[1] \o sep \o Join(Tail(parts), sep)

\* s.lstrip(ch), s.rstrip(ch), s.strip(ch) for a single character ch
RECURSIVE LStrip(_, _)
LStrip(s, ch) == IF s # <<>> /\ s[1] = ch THEN LStrip(Tail(s), ch) ELSE s

RECURSIVE RStrip(_, _)
RStrip(s, ch) ==
    IF s # <<>> /\ s[Len(s)] = ch THEN RStrip(SubSeq(s, 1, Len(s) - 1), ch) ELSE s

Strip(s, ch) == RStrip(LStrip(s, ch), ch)

\* The newline character
NL == "NL"

---------------------------------------------------------------------------
(* color.py: the code tables.                                              *)

_COLOR_CODE ==
    (<<"d">> :> <<"0">>) @@ (<<"r">> :> <<"1">>) @@ (<<"g">> :> <<"2">>) @@
    (<<"y">> :> <<"3">>) @@ (<<"b">> :> <<"4">>) @@ (<<"m">> :> <<"5">>) @@
    (<<"c">> :> <<"6">>) @@ (<<"w">> :> <<"7">>)

bold == <<"b", "o", "l", "d">>
dim == <<"d", "i", "m">>
italic == <<"i", "t", "a", "l", "i", "c">>
udl == <<"u", "d", "l">>
underline == <<"u", "n", "d", "e", "r", "l", "i", "n", "e">>
blink == <<"b", "l", "i", "n", "k">>
selected == <<"s", "e", "l", "e", "c", "t", "e", "d">>
disappear == <<"d", "i", "s", "a", "p", "p", "e", "a", "r">>
del == <<"d", "e", "l">>
delete == <<"d", "e", "l", "e", "t", "e">>

_STYLE_CODE ==
    (bold :> <<"1">>) @@ (dim :> <<"2">>) @@ (italic :> <<"3">>) @@ (udl :> <<"4">>) @@
    (underline :> <<"4">>) @@ (blink :> <<"5">>) @@ (selected :> <<"7">>) @@
    (disappear :> <<"8">>) @@ (del :> <<"9">>) @@ (delete :> <<"9">>)

---------------------------------------------------------------------------
(* color.py: _get_ansi_code and its inner _parse_color.                    *)

\* isinstance(c, Iterable) for the values of the model
IsIterable(c) == c.t \in {"str", "list", "tuple", "iter", "ndarray"}

\* isinstance(val, int) and 0 <= val <= 255
IsByte(val) == val.t = "int" /\ 0 <= val.v /\ val.v <= 255

\* The object c after k of its items have been pulled from it: a single-pass
\* iterator has lost them, a list, tuple or array is as it was.
Drain(c, k) == IF c.t = "iter" THEN [c EXCEPT !.v = SubSeq(c.v, k + 1, Len(c.v))] ELSE c

\* The number of items all(isinstance(val, int) and 0 <= val <= 255 for val in c)
\* pulls from c: all() stops at the first item that fails.
Pulled(items) ==
    IF \A i \in 1..Len(items) : IsByte(items[i]) THEN Len(items)
    ELSE CHOOSE i \in 1..Len(items) :
            ~IsByte(items[i]) /\ \A j \in 1..(i - 1) : IsByte(items[j])

\* _parse_color(c, is_fg): [parse |-> the code fragment, c |-> the object c afterwards]
_parse_color(c, is_fg) ==
    IF c.t = "str" THEN
        [parse |->
            IF c.v \in DOMAIN _COLOR_CODE THEN
                (IF is_fg THEN <<"3">> ELSE <<"4">>) \o _COLOR_CODE[c.v]
            ELSE IF Len(c.v) = 2 /\ c.v[1] = "l" /\ <<c.v[2]>> \in DOMAIN _COLOR_CODE THEN
                (IF is_fg THEN <<"9">> ELSE <<"1", "0">>) \o _COLOR_CODE[<<c.v[2]>>]
            ELSE <<>>,
         c |-> c]
    ELSE IF IsByte(c) THEN
        [parse |-> (IF is_fg THEN <<"3", "8">> ELSE <<"4", "8">>) \o <<";", "5", ";">> \o Dec(c.v),
         c |-> c]
    ELSE IF IsIterable(c) THEN
        IF \A i \in 1..Len(c.v) : IsByte(c.v[i]) THEN
            LET after == Drain(c, Pulled(c.v))     \* all() has walked the whole of c
                rgb == SubSeq(after.v \o <<IntV(0), IntV(0), IntV(0)>>, 1, 3)     \* list(c) + [0, 0, 0]
            IN  [parse |-> (IF is_fg THEN <<"3", "8">> ELSE <<"4", "8">>) \o <<";", "2", ";">>
                            \o Dec(rgb[1].v) \o <<";">> \o Dec(rgb[2].v) \o <<";">> \o Dec(rgb[3].v),
                 c |-> Drain(after, Len(after.v))]
        ELSE [parse |-> <<>>, c |-> Drain(c, Pulled(c.v))]
    ELSE [parse |-> <<>>, c |-> c]

\* The items iterating styles yields: a str yields its characters.
StyleItems(styles) ==
    IF styles.t = "str" THEN [i \in 1..Len(styles.v) |-> StrV(<<styles.v[i]>>)] ELSE styles.v

\* `s in _STYLE_CODE` hashes s: a list or an array is unhashable and raises TypeError.
IsHashable(s) == s.t \notin {"list", "ndarray"}

InStyleCode(s) == s.t = "str" /\ s.v \in DOMAIN _STYLE_CODE

\* [_STYLE_CODE[s] for s in items if s in _STYLE_CODE]
RECURSIVE StyleCodes(_)
StyleCodes(items) ==
    IF items = <<>> THEN <<>>
    ELSE (IF InStyleCode(items[1]) THEN <<_STYLE_CODE[items[1].v]>> ELSE <<>>)
         \o StyleCodes(Tail(items))

\* The index of the first unhashable item, 0 when there is none.
FirstUnhashable(items) ==
    IF \A i \in 1..Len(items) : IsHashable(items[i]) THEN 0
    ELSE CHOOSE i \in 1..Len(items) :
            ~IsHashable(items[i]) /\ \A j \in 1..(i - 1) : IsHashable(items[j])

\* _get_ansi_code(fg, bg, styles): the outcome [raised, style_code, color_code] and
\* the three argument objects as the call leaves them.
_get_ansi_code(fg, bg, styles) ==
    LET items == IF IsIterable(styles) THEN StyleItems(styles) ELSE <<>>
        bad == FirstUnhashable(items)
    IN  IF bad # 0 THEN
            [raised |-> TRUE, style_code |-> <<>>, color_code |-> <<>>,
             fg |-> fg, bg |-> bg, styles |-> Drain(styles, bad)]
        ELSE
            LET foreground == IF fg.t = "None" THEN [parse |-> <<>>, c |-> fg]
                              ELSE _parse_color(fg, TRUE)
                background == IF bg.t = "None" THEN [parse |-> <<>>, c |-> bg]
                              ELSE _parse_color(bg, FALSE)
            IN  [raised |-> FALSE,
                 style_code |-> Join(StyleCodes(items), <<";">>),
                 color_code |-> Strip(Join(<<foreground.parse, background.parse>>, <<";">>), ";"),
                 fg |-> foreground.c, bg |-> background.c,
                 styles |-> Drain(styles, Len(items))]


---------------------------------------------------------------------------
(* color.py: ColorStr.  A segment is the tuple <<plain, color_code,        *)
(* style_code>> of three strings.                                          *)

ESC == "ESC"

\* _assemble_segments without its `if not plain: continue`
RECURSIVE _assemble_segments_Unskipped(_, _, _)
_assemble_segments_Unskipped(segments, use_color, use_style) ==
    IF segments = <<>> THEN <<>>
    ELSE
        LET codes == Strip(IF use_color /\ use_style THEN segments[1][3] \o <<";">> \o segments[1][2]
                           ELSE IF use_color THEN segments[1][2]
                           ELSE IF use_style THEN segments[1][3]
                           ELSE <<>>, ";")
            piece == IF codes # <<>> THEN
                        <<ESC, "[">> \o codes \o <<"m">> \o segments[1][1] \o <<ESC, "[", "0", "m">>
                     ELSE segments[1][1]
        IN  piece \o _assemble_segments_Unskipped(Tail(segments), use_color, use_style)

\* _assemble_segments(segments, use_color, use_style)
RECURSIVE _assemble_segments(_, _, _)
_assemble_segments(segments, use_color, use_style) ==
    IF segments = <<>> THEN <<>>
    ELSE
        LET plain == segments[1][1]
            color_code == segments[1][2]
            style_code == segments[1][3]
            codes == Strip(IF use_color /\ use_style THEN style_code \o <<";">> \o color_code
                           ELSE IF use_color THEN color_code
                           ELSE IF use_style THEN style_code
                           ELSE <<>>, ";")
            piece == IF plain = <<>> THEN <<>>
                     ELSE IF codes # <<>> THEN
                        <<ESC, "[">> \o codes \o <<"m">> \o plain \o <<ESC, "[", "0", "m">>
                     ELSE plain
        IN  piece \o _assemble_segments(Tail(segments), use_color, use_style)

\* ColorStr.__new__(cls, *segments), for segments that are 3-tuples of str
ColorStr_new(segments) ==
    [t |-> "ColorStr",
     v |-> _assemble_segments(segments, FALSE, FALSE),
     segs |-> segments,
     colored |-> \E i \in 1..Len(segments) : segments[i][2] # <<>> \/ segments[i][3] # <<>>]

\* The properties plain, color_only, style_only and rich of a ColorStr
plain(s) == s.v
color_only(s) == _assemble_segments(s.segs, TRUE, FALSE)
style_only(s) == _assemble_segments(s.segs, FALSE, TRUE)
rich(s) == _assemble_segments(s.segs, TRUE, TRUE)

\* str(x): ColorStr.__str__ returns the rich view
PyStr(x) ==
    CASE x.t = "str" -> x.v
      [] x.t = "ColorStr" -> rich(x)
      [] x.t = "int" -> IF x.v < 0 THEN <<"-">> \o Dec(0 - x.v) ELSE Dec(x.v)
      [] x.t = "float" -> x.v
      [] x.t = "None" -> <<"N", "o", "n", "e">>

\* ColorStr.from_str(_str, fg, bg, styles): the outcome [raised, obj] and the
\* option objects as the call leaves them.
from_str(_str, fg, bg, styles) ==
    LET text == PyStr(_str)
    IN  IF text # <<>> /\ (fg.t # "None" \/ bg.t # "None" \/ styles.t # "None") THEN
            LET code == _get_ansi_code(fg, bg,
                            IF styles.t # "None" THEN styles ELSE [t |-> "list", v |-> <<>>])
            IN  [raised |-> code.raised,
                 obj |-> IF code.raised THEN None
                         ELSE [t |-> "ColorStr", v |-> text,
                               segs |-> << <<text, code.color_code, code.style_code>> >>,
                               colored |-> code.color_code # <<>> \/ code.style_code # <<>>],
                 fg |-> code.fg, bg |-> code.bg,
                 styles |-> IF styles.t # "None" THEN code.styles ELSE styles]
        ELSE
            [raised |-> FALSE,
             obj |-> [t |-> "ColorStr", v |-> text, segs |-> << <<text, <<>>, <<>> >> >>,
                      colored |-> FALSE],
             fg |-> fg, bg |-> bg, styles |-> styles]

\* ctext(text, fg, bg, styles)
ctext(text, fg, bg, styles) == from_str(text, fg, bg, styles)

\* compile_template(fg, bg, styles), ColorTemplate.__init__: the private fields
compile_template(fg, bg, styles) == [fg |-> fg, bg |-> bg, styles |-> styles]

\* ColorTemplate.format(self, text): [raised, obj] and the fields afterwards
ColorTemplate_format(self, text) ==
    LET r == from_str(text, self.fg, self.bg, self.styles)
    IN  [raised |-> r.raised, obj |-> r.obj,
         self |-> [fg |-> r.fg, bg |-> r.bg, styles |-> r.styles]]

\* ColorTemplate.__call__(self, text)
ColorTemplate_call(self, text) == ColorTemplate_format(self, text)

\* ColorStr.__add__(self, other_str)
ColorStr_add(self, other_str) ==
    LET other_segments == IF other_str.t = "ColorStr" THEN other_str.segs
                          ELSE << <<PyStr(other_str), <<>>, <<>> >> >>
    IN  ColorStr_new(self.segs \o other_segments)

\* x + y and x += y for strings.  ColorStr defines __add__ and no __radd__: with a
\* plain str on the left the interpreter finds no reflected method and runs
\* str.__add__, which concatenates the contents of the two str objects.
BinaryAdd(x, y) ==
    IF x.t = "ColorStr" THEN ColorStr_add(x, y) ELSE StrV(x.v \o y.v)

\* segments * n for a list
RECURSIVE Repeat(_, _)
Repeat(segments, n) == IF n <= 0 THEN <<>> ELSE segments \o Repeat(segments, n - 1)

\* ColorStr.__mul__ with the guard `n <= 1` in place of `n <= 0`
ColorStr_mul_OffByOne(self, n) ==
    IF n.t # "int" THEN [raised |-> TRUE, obj |-> None]
    ELSE IF n.v <= 1 THEN [raised |-> FALSE, obj |-> ColorStr_new(<<>>)]
    ELSE [raised |-> FALSE, obj |-> ColorStr_new(Repeat(self.segs, n.v))]

\* ColorStr.__mul__ without its assert, a count that is no integer taken as 0
ColorStr_mul_Unasserted(self, n) ==
    IF n.t # "int" \/ n.v <= 0 THEN [raised |-> FALSE, obj |-> ColorStr_new(<<>>)]
    ELSE [raised |-> FALSE, obj |-> ColorStr_new(Repeat(self.segs, n.v))]

\* ColorStr.__mul__(self, n): [raised, obj]
ColorStr_mul(self, n) ==
    IF n.t # "int" THEN [raised |-> TRUE, obj |-> None]       \* the assert fails
    ELSE IF n.v <= 0 THEN [raised |-> FALSE, obj |-> ColorStr_new(<<>>)]
    ELSE [raised |-> FALSE, obj |-> ColorStr_new(Repeat(self.segs, n.v))]

---------------------------------------------------------------------------
(* The codec run: one set of argument objects, to which _get_ansi_code and *)
(* ctext are applied, any number of times.                                 *)

MaxChannels == 4        \* the longest colour iterable
MaxStyles == 3          \* the longest style collection

SeqsUpTo(S, n) == UNION {[1..k -> S] : k \in 0..n}

Float == [t |-> "float", v |-> <<"1", ".", "5">>]

ColorNames ==
    {StrV(<<b>>) : b \in {"d", "r", "g", "y", "b", "m", "c", "w"}}
    \cup {StrV(<<"l", b>>) : b \in {"d", "r", "g", "y", "b", "m", "c", "w"}}

BadColors ==
    {StrV(<<"x">>), StrV(<<"l">>), StrV(<<"l", "x">>), StrV(<<>>), StrV(<<"r", "r">>),
     IntV(256), IntV(-1), Float, [t |-> "uint8", v |-> 7],
     [t |-> "list", v |-> <<IntV(7), Float>>]}

ChannelItems == {IntV(7), IntV(255), IntV(256)}

ColorIterables ==
    {[t |-> k, v |-> q] : k \in {"list", "tuple", "iter"}, q \in SeqsUpTo(ChannelItems, MaxChannels)}

\* Every colour value of the run, valid or not
ColorInputs ==
    {None} \cup ColorNames \cup {IntV(0), IntV(9), IntV(255)} \cup BadColors \cup ColorIterables

FewColors == {None, StrV(<<"r">>), StrV(<<"x">>)}

Unhashable == [t |-> "list", v |-> <<StrV(bold)>>]

StyleElems == {StrV(bold), StrV(udl), StrV(<<"z", "z">>), IntV(5), Unhashable}

StyleInputs ==
    {None, IntV(5), StrV(bold)}
    \cup {[t |-> k, v |-> q] : k \in {"list", "iter"}, q \in SeqsUpTo(StyleElems, MaxStyles)}

FewStyles == {None, [t |-> "list", v |-> <<StrV(bold)>>]}

TextInputs == {StrV(<<>>), IntV(42)}

CodecInit ==
    /\ \/ \E text \in TextInputs, fg \in ColorInputs, bg \in FewColors, styles \in FewStyles :
            args = [text |-> text, fg |-> fg, bg |-> bg, styles |-> styles]
       \/ \E text \in TextInputs, fg \in FewColors, bg \in ColorInputs, styles \in FewStyles :
            args = [text |-> text, fg |-> fg, bg |-> bg, styles |-> styles]
       \/ \E text \in TextInputs, fg \in FewColors, bg \in FewColors, styles \in StyleInputs :
            args = [text |-> text, fg |-> fg, bg |-> bg, styles |-> styles]
    /\ call = Idle
    /\ cur = Idle /\ last = Idle
    /\ tpl = Idle /\ made = Idle /\ applied = Idle
    /\ img = Idle /\ rendered = Idle
    /\ console = Idle /\ printed = Idle /\ target = Idle /\ line = Idle

\* _get_ansi_code(fg, bg, styles) on the argument objects
Encode ==
    LET code == _get_ansi_code(args.fg, args.bg, args.styles)
    IN  /\ call' = [t |-> "call", fn |-> "_get_ansi_code", given |-> args, raised |-> code.raised,
                    style_code |-> code.style_code, color_code |-> code.color_code,
                    obj |-> None]
        /\ args' = [args EXCEPT !.fg = code.fg, !.bg = code.bg, !.styles = code.styles]
        /\ UNCHANGED <<cur, last, tpl, made, applied, img, rendered, console, printed, target, line>>

\* ctext(text, fg, bg, styles) on the argument objects
Ctext ==
    LET res == ctext(args.text, args.fg, args.bg, args.styles)
    IN  /\ call' = [t |-> "call", fn |-> "ctext", given |-> args, raised |-> res.raised,
                    style_code |-> IF res.raised THEN <<>> ELSE res.obj.segs[1][3],
                    color_code |-> IF res.raised THEN <<>> ELSE res.obj.segs[1][2],
                    obj |-> res.obj]
        /\ args' = [args EXCEPT !.fg = res.fg, !.bg = res.bg, !.styles = res.styles]
        /\ UNCHANGED <<cur, last, tpl, made, applied, img, rendered, console, printed, target, line>>

CodecNext == Encode \/ Ctext

SpecCodec == CodecInit /\ [][CodecNext]_vars

---------------------------------------------------------------------------
(* The reference table of the colour codec, as the specification states it. *)

BaseDigit ==
    ("d" :> 0) @@ ("r" :> 1) @@ ("g" :> 2) @@ ("y" :> 3) @@
    ("b" :> 4) @@ ("m" :> 5) @@ ("c" :> 6) @@ ("w" :> 7)

IsSequenceOrIterator(c) == c.t \in {"list", "tuple", "iter"}

\* A valid ColorSpec: one of the 16 names, a palette index, or a finite iterable
\* of integers in 0..255
ValidColorSpec(c) ==
    \/ c \in ColorNames
    \/ c.t = "int" /\ c.v \in 0..255
    \/ IsSequenceOrIterator(c) /\ \A i \in 1..Len(c.v) : c.v[i].t = "int" /\ c.v[i].v \in 0..255

\* The i-th component of a triple, 0 when it has fewer than i
Channel(q, i) == IF i <= Len(q) THEN q[i].v ELSE 0

RefFragment(c, is_fg) ==
    CASE c.t = "None" -> <<>>
      [] c.t = "str" /\ Len(c.v) = 1 -> Dec((IF is_fg THEN 30 ELSE 40) + BaseDigit[c.v[1]])
      [] c.t = "str" /\ Len(c.v) = 2 -> Dec((IF is_fg THEN 90 ELSE 100) + BaseDigit[c.v[2]])
      [] c.t = "int" -> Dec(IF is_fg THEN 38 ELSE 48) \o <<";", "5", ";">> \o Dec(c.v)
      [] OTHER -> Dec(IF is_fg THEN 38 ELSE 48) \o <<";", "2", ";">> \o Dec(Channel(c.v, 1))
                  \o <<";">> \o Dec(Channel(c.v, 2)) \o <<";">> \o Dec(Channel(c.v, 3))

\* The fragments of the valid components, joined by ';' with the empty ones dropped;
\* an invalid component contributes nothing
RefColorCode(fg, bg) ==
    LET f == IF ValidColorSpec(fg) THEN RefFragment(fg, TRUE) ELSE <<>>
        b == IF ValidColorSpec(bg) THEN RefFragment(bg, FALSE) ELSE <<>>
    IN  Join(SelectSeq(<<f, b>>, LAMBDA part : part # <<>>), <<";">>)

\* A style collection whose elements are all strings
IsTagCollection(styles) ==
    styles.t \in {"list", "iter"} /\ \A i \in 1..Len(styles.v) : styles.v[i].t = "str"

\* C3 (as claimed): for fg and bg each absent or a valid ColorSpec, and styles a
\* collection of strings, _get_ansi_code returns the reference colour code: the
\* foreground and background fragments of the table joined by ';', a colour
\* iterable (list, tuple or single-pass iterator) encoded from its first three
\* components, right-padded with 0.
C3_ColorCodecMatchesTable ==
    (/\ call.t = "call" /\ call.fn = "_get_ansi_code"
     /\ call.given.fg.t = "None" \/ ValidColorSpec(call.given.fg)
     /\ call.given.bg.t = "None" \/ ValidColorSpec(call.given.bg)
     /\ call.given.styles.t = "None" \/ IsTagCollection(call.given.styles))
        => /\ ~call.raised
           /\ call.color_code = RefColorCode(call.given.fg, call.given.bg)

\* The single-digit codes a style code lists
CodesIn(style_code) == {style_code[i] : i \in 1..Len(style_code)} \ {";"}

\* The codes of the recognised tags among the elements of a style value
TagCodes(styles) ==
    IF styles.t \in {"list", "iter"} THEN
        {_STYLE_CODE[styles.v[i].v][1] :
            i \in {j \in 1..Len(styles.v) : styles.v[j].t = "str" /\ styles.v[j].v \in DOMAIN _STYLE_CODE}}
    ELSE {}

\* C4 (as claimed): whatever is passed as fg, bg and styles (here: colours that
\* are not single-pass iterators), ctext does not raise, the plain view of its
\* result is str(text), an invalid component contributes no code and every valid
\* component is encoded.
C4_CtextNeverRaises ==
    (/\ call.t = "call" /\ call.fn = "ctext"
     /\ call.given.fg.t # "iter" /\ call.given.bg.t # "iter")
        => /\ ~call.raised
           /\ call.obj.t = "ColorStr"
           /\ plain(call.obj) = PyStr(call.given.text)
           /\ PyStr(call.given.text) # <<>> =>
                /\ call.color_code = RefColorCode(call.given.fg, call.given.bg)
                /\ CodesIn(call.style_code) = TagCodes(call.given.styles)

\* The codes of a set, in the enumeration order bold 1, dim 2, italic 3,
\* underline 4, blink 5, selected 7, strikethrough 9, joined by ';'
InEnumerationOrder(codes) ==
    Join(SelectSeq(<< <<"1">>, <<"2">>, <<"3">>, <<"4">>, <<"5">>, <<"7">>, <<"9">> >>,
                   LAMBDA code : code[1] \in codes), <<";">>)

\* C5 (as claimed): the style code depends only on the set of recognised tags of
\* the collection: their codes in the enumeration order, each once, joined by ';'.
C5_StyleCodeInEnumerationOrder ==
    (/\ call.t = "call" /\ call.fn = "_get_ansi_code"
     /\ IsTagCollection(call.given.styles))
        => call.style_code = InEnumerationOrder(TagCodes(call.given.styles))

---------------------------------------------------------------------------
(* The ColorStr session: a variable bound to a string value, rebound by    *)
(* ctext, apply_to, +, += and *.                                           *)

MaxSegs == 2        \* the most segments (characters, for a plain str) of a value
MaxRep == 2         \* the largest repetition count

\* ColorStr.apply_to(self, text, use_color, use_style, segment_idx): [raised, obj]
apply_to(self, text, use_color, use_style, segment_idx) ==
    IF segment_idx >= Len(self.segs) \/ segment_idx < 0 - Len(self.segs) THEN
        [raised |-> TRUE, obj |-> None]         \* IndexError
    ELSE
        LET seg == self.segs[IF segment_idx >= 0 THEN segment_idx + 1
                             ELSE Len(self.segs) + segment_idx + 1]
        IN  [raised |-> FALSE,
             obj |-> ColorStr_new(<< <<IF text.t = "ColorStr" THEN plain(text) ELSE PyStr(text),
                                       IF use_color THEN seg[2] ELSE <<>>,
                                       IF use_style THEN seg[3] ELSE <<>> >> >>)]

SessionTexts == {StrV(<<>>), StrV(<<"a">>)}
SessionFg == {None, StrV(<<"r">>)}
SessionBg == {None, IntV(3)}
SessionStyles == {None, [t |-> "list", v |-> <<StrV(bold)>>]}

\* The values ctext returns for the session's options
\* The option triples <<fg, bg, styles>> of the session
SessionOptions ==
    (SessionFg \X {None} \X SessionStyles) \cup ({None} \X SessionBg \X {None})

Fresh == {ctext(text, o[1], o[2], o[3]).obj : text \in SessionTexts, o \in SessionOptions}

PlainStrs == {StrV(<<>>), StrV(<<"x">>)}

\* ctext("a", fg="r"), as a text argument
Tinted == ctext(StrV(<<"a">>), StrV(<<"r">>), None, None).obj

RepCounts == {IntV(k) : k \in -2..MaxRep} \cup {Float, None, StrV(<<"2">>)}

\* The size of a value: its segments, or the characters of a plain str
Weight(x) == IF x.t = "ColorStr" THEN Len(x.segs) ELSE Len(x.v)

Init ==
    /\ \E text \in SessionTexts, o \in SessionOptions :
        /\ cur = ctext(text, o[1], o[2], o[3]).obj
        /\ last = [t |-> "op", op |-> "ctext", text |-> text, fg |-> o[1], bg |-> o[2],
                   styles |-> o[3], raised |-> FALSE, res |-> cur]
    /\ args = Idle /\ call = Idle
    /\ tpl = Idle /\ made = Idle /\ applied = Idle
    /\ img = Idle /\ rendered = Idle
    /\ console = Idle /\ printed = Idle /\ target = Idle /\ line = Idle

\* cur = ctext(text, fg, bg, styles)
Rebind ==
    \E text \in SessionTexts, o \in SessionOptions :
        /\ cur' = ctext(text, o[1], o[2], o[3]).obj
        /\ last' = [t |-> "op", op |-> "ctext", text |-> text, fg |-> o[1], bg |-> o[2],
                    styles |-> o[3], raised |-> FALSE, res |-> cur']
        /\ UNCHANGED <<args, call, tpl, made, applied, img, rendered, console, printed, target, line>>

\* cur = cur.apply_to(text, use_color, use_style, segment_idx)
ApplyTo ==
    /\ cur.t = "ColorStr"
    /\ \E text \in {StrV(<<>>), Tinted}, use_color \in BOOLEAN, use_style \in BOOLEAN,
          segment_idx \in {-1, 0, MaxSegs} :
        LET r == apply_to(cur, text, use_color, use_style, segment_idx)
        IN  /\ cur' = IF r.raised THEN cur ELSE r.obj
            /\ last' = [t |-> "op", op |-> "apply_to", x |-> cur, text |-> text,
                        use_color |-> use_color, use_style |-> use_style,
                        segment_idx |-> segment_idx, raised |-> r.raised, res |-> r.obj]
    /\ UNCHANGED <<args, call, tpl, made, applied, img, rendered, console, printed, target, line>>

\* cur = cur + y, cur += y
AddRight ==
    /\ \E y \in Fresh \cup PlainStrs :
        /\ cur.t = "ColorStr" \/ y.t = "ColorStr"
        /\ Weight(cur) + Weight(y) <= MaxSegs
        /\ cur' = BinaryAdd(cur, y)
        /\ last' = [t |-> "op", op |-> "add", x |-> cur, y |-> y, raised |-> FALSE, res |-> cur']
    /\ UNCHANGED <<args, call, tpl, made, applied, img, rendered, console, printed, target, line>>

\* cur = x + cur, and x += cur for a variable x that is then taken as cur
AddLeft ==
    /\ \E x \in Fresh \cup PlainStrs :
        /\ cur.t = "ColorStr" \/ x.t = "ColorStr"
        /\ Weight(x) + Weight(cur) <= MaxSegs
        /\ cur' = BinaryAdd(x, cur)
        /\ last' = [t |-> "op", op |-> "add", x |-> x, y |-> cur, raised |-> FALSE, res |-> cur']
    /\ UNCHANGED <<args, call, tpl, made, applied, img, rendered, console, printed, target, line>>

\* cur = cur * n
Mul ==
    /\ cur.t = "ColorStr"
    /\ \E n \in RepCounts :
        /\ n.t = "int" => Len(cur.segs) * n.v <= MaxSegs
        /\ LET r == ColorStr_mul(cur, n)
           IN  /\ cur' = IF r.raised THEN cur ELSE r.obj
               /\ last' = [t |-> "op", op |-> "mul", x |-> cur, n |-> n,
                           raised |-> r.raised, res |-> r.obj]
    /\ UNCHANGED <<args, call, tpl, made, applied, img, rendered, console, printed, target, line>>

\* ColorStr.iscombined()
iscombined(self) == Len(self.segs) > 1

\* str.upper over the letters of the session texts
Upper(chars) ==
    [i \in 1..Len(chars) |->
        CASE chars[i] = "a" -> "A" [] chars[i] = "b" -> "B" [] chars[i] = "x" -> "X"
          [] OTHER -> chars[i]]

\* The str methods called in the session, on the str value of the object
StrMethod(name, chars) ==
    CASE name = "upper" -> Upper(chars)
      [] name = "strip" -> Strip(chars, " ")
      [] name = "title" -> IF chars = <<>> THEN <<>> ELSE Upper(<<chars[1]>>) \o Tail(chars)

MethodNames == {"upper", "strip", "title"}

\* ColorStr.__getattribute__(name)(): the wrapper around a str method that
\* returns a str, called without arguments
ColorStr_getattribute(self, name) ==
    LET result == StrV(StrMethod(name, self.v))
    IN  IF ~iscombined(self) THEN apply_to(self, result, TRUE, TRUE, 0)
        ELSE [raised |-> FALSE, obj |-> result]

\* cur.upper(), cur.strip(), cur.title(): the result is not bound
Method ==
    /\ cur.t = "ColorStr"
    /\ \E name \in MethodNames :
        LET r == ColorStr_getattribute(cur, name)
        IN  last' = [t |-> "op", op |-> "method", name |-> name, x |-> cur,
                     raised |-> r.raised, res |-> r.obj]
    /\ UNCHANGED <<cur, args, call, tpl, made, applied, img, rendered, console, printed, target, line>>

\* The options of a call whose text argument is the object built so far
WrapOptions == {<<None, None, None>>, <<StrV(<<"r">>), None, None>>}

\* ctext(cur, fg, bg, styles) and compile_template(fg, bg, styles).format(cur):
\* the object built so far is the text argument; the result is not bound
Wrap ==
    /\ cur.t = "ColorStr"
    /\ \E o \in WrapOptions, via \in {"ctext", "format"} :
        LET r == IF via = "ctext" THEN ctext(cur, o[1], o[2], o[3])
                 ELSE ColorTemplate_format(compile_template(o[1], o[2], o[3]), cur)
        IN  last' = [t |-> "op", op |-> "wrap", via |-> via, x |-> cur,
                     fg |-> o[1], bg |-> o[2], styles |-> o[3],
                     raised |-> r.raised, res |-> r.obj]
    /\ UNCHANGED <<cur, args, call, tpl, made, applied, img, rendered, console, printed, target, line>>

Next == Rebind \/ ApplyTo \/ AddRight \/ AddLeft \/ Mul \/ Method \/ Wrap

Spec == Init /\ [][Next]_vars

---------------------------------------------------------------------------
(* Claims on the ColorStr session.                                         *)

\* The segments an operand of + stands for: a plain str is one segment with
\* empty codes
SegsOf(x) == IF x.t = "ColorStr" THEN x.segs ELSE << <<x.v, <<>>, <<>> >> >>

RichOf(x) == IF x.t = "ColorStr" THEN rich(x) ELSE x.v

\* C1 (as claimed): x + y, with at least one ColorStr among x and y and the
\* other a ColorStr or a plain str, in either order, is a ColorStr whose
\* segments are x's followed by y's; its plain view is the two plain texts
\* concatenated and its rich view carries every code of both operands.
C1_ConcatKeepsSegments ==
    (last.t = "op" /\ last.op = "add")
        => /\ last.res.t = "ColorStr"
           /\ last.res.segs = SegsOf(last.x) \o SegsOf(last.y)
           /\ plain(last.res) = last.x.v \o last.y.v
           /\ rich(last.res) = RichOf(last.x) \o RichOf(last.y)

\* The code a view applies to a segment: none for plain, the colour code for
\* color_only, the style code for style_only, and for rich the style code and
\* the colour code joined by ';' (an empty one dropped)
ViewCode(seg, view) ==
    CASE view = "plain" -> <<>>
      [] view = "color_only" -> seg[2]
      [] view = "style_only" -> seg[3]
      [] view = "rich" -> Join(SelectSeq(<<seg[3], seg[2]>>, LAMBDA code : code # <<>>), <<";">>)

\* The piece of one segment in a view
Piece(seg, view) ==
    IF seg[1] = <<>> THEN <<>>
    ELSE IF ViewCode(seg, view) # <<>> THEN
        <<"ESC", "[">> \o ViewCode(seg, view) \o <<"m">> \o seg[1] \o <<"ESC", "[", "0", "m">>
    ELSE seg[1]

RECURSIVE Concat(_)
Concat(pieces) == IF pieces = <<>> THEN <<>> ELSE pieces[1] \o Concat(Tail(pieces))

ViewAsClaimed(s, view) ==
    Concat([i \in 1..Len(s.segs) |-> Piece(s.segs[i], view)])

\* C2: each of the four views of a ColorStr is the concatenation, in segment
\* order, of one piece per segment: nothing for an empty text, the text wrapped
\* in ESC[<code>m ... ESC[0m when the view's code for the segment is non-empty,
\* the bare text otherwise; style_only is the same whatever fg and bg were, and
\* a ColorStr built with no option has rich equal to plain.
C2_ViewAssembly ==
    cur.t = "ColorStr"
        => /\ plain(cur) = ViewAsClaimed(cur, "plain")
           /\ color_only(cur) = ViewAsClaimed(cur, "color_only")
           /\ style_only(cur) = ViewAsClaimed(cur, "style_only")
           /\ rich(cur) = ViewAsClaimed(cur, "rich")
           /\ last.op = "ctext" =>
                /\ style_only(cur) = style_only(ctext(last.text, None, None, last.styles).obj)
                /\ (last.fg.t = "None" /\ last.bg.t = "None" /\ last.styles.t = "None")
                        => rich(cur) = plain(cur)

\* Two adjacent segments with the same colour and style codes, each wrapped on
\* its own in the rich view
C2_Witness ==
    /\ cur.t = "ColorStr"
    /\ cur.segs = << <<(<<"a">>), <<"3", "1">>, <<"1">> >>, <<(<<"a">>), <<"3", "1">>, <<"1">> >> >>
    /\ rich(cur) = <<"ESC", "[", "1", ";", "3", "1", "m", "a", "ESC", "[", "0", "m",
                     "ESC", "[", "1", ";", "3", "1", "m", "a", "ESC", "[", "0", "m">>
    /\ style_only(cur) = <<"ESC", "[", "1", "m", "a", "ESC", "[", "0", "m",
                           "ESC", "[", "1", "m", "a", "ESC", "[", "0", "m">>
    /\ plain(cur) = <<"a", "a">>

\* n copies of a sequence
NCopies(s, n) ==
    IF n = 0 \/ s = <<>> THEN <<>> ELSE [i \in 1..(n * Len(s)) |-> s[((i - 1) % Len(s)) + 1]]

\* C6: for an integer n >= 0, s * n is a ColorStr whose segments are those of s
\* repeated n times; its plain view is n copies of s.plain (empty for n = 0) and
\* its rich view n copies of s.rich.
C6_Repetition ==
    (last.t = "op" /\ last.op = "mul" /\ last.n.t = "int" /\ last.n.v >= 0)
        => /\ ~last.raised
           /\ last.res.t = "ColorStr"
           /\ last.res.segs = NCopies(last.x.segs, last.n.v)
           /\ plain(last.res) = NCopies(plain(last.x), last.n.v)
           /\ rich(last.res) = NCopies(rich(last.x), last.n.v)
           /\ last.n.v = 0 => plain(last.res) = <<>>
           /\ cur = last.res

C6_Witness ==
    /\ last.t = "op" /\ last.op = "mul" /\ last.n = IntV(2)
    /\ last.x.colored /\ plain(last.x) = <<"a">>
    /\ plain(cur) = <<"a", "a">> /\ Len(cur.segs) = 2

\* C7 (as claimed): s * n is rejected with an error whenever n is a negative
\* integer or is not an integer.
C7_RejectsNegativeAndNonInteger ==
    (last.t = "op" /\ last.op = "mul" /\ (last.n.t # "int" \/ last.n.v < 0))
        => last.raised

\* C7 (amended): s * n is rejected with an error, and returns nothing, exactly
\* when n is not an integer; for a negative integer n no error is raised and the
\* result is the empty ColorStr, as for n = 0.
C7_RejectsNonIntegerOnly ==
    (last.t = "op" /\ last.op = "mul")
        => /\ last.raised <=> last.n.t # "int"
           /\ last.raised => last.res = None /\ cur = last.x
           /\ (last.n.t = "int" /\ last.n.v < 0)
                => /\ last.res.t = "ColorStr"
                   /\ last.res.segs = <<>>
                   /\ plain(last.res) = <<>>

C7_Witness ==
    /\ last.t = "op" /\ last.op = "mul" /\ last.n = Float
    /\ last.raised /\ last.x.colored /\ cur = last.x

---------------------------------------------------------------------------
(* color.py: ColorTemplate.  The object keeps the three option objects it  *)
(* was given (references, not copies) and hands them to from_str on every  *)
(* invocation.                                                             *)

MaxCalls == 3       \* the most invocations of one template

TemplateColors ==
    {None, StrV(<<"b">>), IntV(200), IntV(256),
     [t |-> "tuple", v |-> <<IntV(1), IntV(2), IntV(3)>>],
     [t |-> "iter", v |-> <<IntV(1), IntV(2), IntV(3)>>],
     [t |-> "iter", v |-> <<IntV(1), IntV(256), IntV(3)>>]}

TemplateStyles ==
    {None, [t |-> "list", v |-> <<StrV(bold), StrV(udl)>>],
     [t |-> "iter", v |-> <<StrV(bold), StrV(udl)>>]}

TemplateTexts == {StrV(<<>>), StrV(<<"H", "i">>), IntV(7)}

TemplateInit ==
    /\ \E fg \in TemplateColors, bg \in TemplateColors, styles \in TemplateStyles :
        /\ tpl = compile_template(fg, bg, styles)
        /\ made = tpl
    /\ applied = [t |-> "applied", k |-> 0]
    /\ args = Idle /\ call = Idle
    /\ cur = Idle /\ last = Idle
    /\ img = Idle /\ rendered = Idle
    /\ console = Idle /\ printed = Idle /\ target = Idle /\ line = Idle

\* template.format(text)
Format ==
    /\ applied.k < MaxCalls
    /\ \E text \in TemplateTexts :
        LET r == ColorTemplate_format(tpl, text)
        IN  /\ tpl' = r.self
            /\ applied' = [t |-> "applied", k |-> applied.k + 1, via |-> "format",
                           text |-> text, raised |-> r.raised, res |-> r.obj]
    /\ UNCHANGED <<made, args, call, cur, last, img, rendered, console, printed, target, line>>

\* template(text)
Call ==
    /\ applied.k < MaxCalls
    /\ \E text \in TemplateTexts :
        LET r == ColorTemplate_call(tpl, text)
        IN  /\ tpl' = r.self
            /\ applied' = [t |-> "applied", k |-> applied.k + 1, via |-> "call",
                           text |-> text, raised |-> r.raised, res |-> r.obj]
    /\ UNCHANGED <<made, args, call, cur, last, img, rendered, console, printed, target, line>>

TemplateNext == Format \/ Call

SpecTemplate == TemplateInit /\ [][TemplateNext]_vars

\* C8 (as claimed): the k-th invocation of a template with text t returns what
\* ctext(t, fg, bg, styles) returns for the options as they were when the
\* template was constructed (same segments, hence the same four views),
\* whatever was applied before.
C8_TemplateStateless ==
    (applied.t = "applied" /\ applied.k > 0)
        => LET ref == ctext(applied.text, made.fg, made.bg, made.styles)
           IN  /\ applied.raised = ref.raised
               /\ applied.res = ref.obj

---------------------------------------------------------------------------
(* output.py: set_console_func, _get_global_console, ConsoleFunc and       *)
(* smart_print.                                                            *)
(*                                                                         *)
(* A callable is [t |-> "func", name, keys, anykw]: it takes one           *)
(* positional string, the keyword arguments named in keys, and any keyword *)
(* argument when anykw holds; called with another keyword argument it      *)
(* raises TypeError. Keyword arguments are a set of <<name, value>> pairs. *)
(* The console state is [_GLOBAL_CONSOLE_FUNC, tqdm, bars, rich]: the      *)
(* module global, whether tqdm and rich.console were imported, and the     *)
(* number of progress bars in tqdm._instances.                             *)

MaxBars == 2        \* the most progress bars open at once

\* The mutant of _default_print that writes a second time
_default_print_Twice(formatted_str, file) ==
    LET w == [stream |-> IF file = None THEN "stdout" ELSE file.v,
              text |-> formatted_str \o <<NL>>]
    IN  <<w, w>>

\* _default_print(): builtins.print(formatted_str, file=file or sys.stdout),
\* one print of the string and print's own newline
_default_print(formatted_str, file) ==
    <<[stream |-> IF file = None THEN "stdout" ELSE file.v,
       text |-> formatted_str \o <<NL>>]>>

PlainSink == [t |-> "func", name |-> "f", keys |-> {}, anykw |-> FALSE]
KeywordSink == [t |-> "func", name |-> "g", keys |-> {}, anykw |-> TRUE]
\* tqdm.write(s, file=None, end="\n", nolock=False)
TqdmWrite == [t |-> "func", name |-> "tqdm.write", keys |-> {"file", "end", "nolock"}, anykw |-> FALSE]
\* Console().print(*objects, sep, end, style, markup, highlight, ...)
ConsolePrint ==
    [t |-> "func", name |-> "Console.print",
     keys |-> {"sep", "end", "style", "markup", "highlight"}, anykw |-> FALSE]

Accepts(func, kwargs) == func.anykw \/ \A kv \in kwargs : kv[1] \in func.keys

\* ConsoleFunc(func, **kwargs)
ConsoleFunc(func, kwargs) == [t |-> "ConsoleFunc", func |-> func, kwargs |-> kwargs]

\* ConsoleFunc.__call__(formatted_str): the call func(formatted_str, **kwargs)
\* and whether it returned; fails is the callable raising of its own
ConsoleFunc_call(self, formatted_str, fails) ==
    [func |-> self.func, arg |-> formatted_str, kwargs |-> self.kwargs,
     returned |-> Accepts(self.func, self.kwargs) /\ ~fails]

\* set_console_func(func, **kwargs): the new value of _GLOBAL_CONSOLE_FUNC
set_console_func(func, kwargs) == ConsoleFunc(func, kwargs)

\* The mutant of _get_global_console that installs the default whenever rich
\* is there
_get_global_console_Reset(con) ==
    IF con.rich
    THEN set_console_func(ConsolePrint, {<<"end", "">>, <<"markup", "False">>, <<"highlight", "False">>})
    ELSE con._GLOBAL_CONSOLE_FUNC

\* _get_global_console(): the value of _GLOBAL_CONSOLE_FUNC it leaves and returns
_get_global_console(con) ==
    IF con._GLOBAL_CONSOLE_FUNC = None /\ con.rich
    THEN set_console_func(ConsolePrint, {<<"end", "">>, <<"markup", "False">>, <<"highlight", "False">>})
    ELSE con._GLOBAL_CONSOLE_FUNC

\* The mutant of the selection that asks the global sink before tqdm
UsedFunc_GlobalFirst(console_func, con) ==
    IF console_func # None THEN
        [path |-> "console_func",
         used |-> IF console_func.t = "ConsoleFunc" THEN console_func
                  ELSE ConsoleFunc(console_func, {<<"end", "">>}),
         global |-> con._GLOBAL_CONSOLE_FUNC]
    ELSE IF _get_global_console(con) # None THEN
        [path |-> "global", used |-> _get_global_console(con), global |-> _get_global_console(con)]
    ELSE [path |-> "tqdm", used |-> ConsoleFunc(TqdmWrite, {<<"end", "">>}),
          global |-> con._GLOBAL_CONSOLE_FUNC]

\* used_func of smart_print, the branch taken and the value _GLOBAL_CONSOLE_FUNC
\* is left with
UsedFunc(console_func, con) ==
    IF console_func # None THEN
        [path |-> "console_func",
         used |-> IF console_func.t = "ConsoleFunc" THEN console_func
                  ELSE ConsoleFunc(console_func, {<<"end", "">>}),
         global |-> con._GLOBAL_CONSOLE_FUNC]
    ELSE IF con.tqdm /\ con.bars > 0 THEN
        [path |-> "tqdm", used |-> ConsoleFunc(TqdmWrite, {<<"end", "">>}),
         global |-> con._GLOBAL_CONSOLE_FUNC]
    ELSE [path |-> "global", used |-> _get_global_console(con), global |-> _get_global_console(con)]

\* smart_print(*values, sep, end, file, console_func) in the console state con:
\* the formatted string, the calls made to the sink, the prints made by
\* _default_print and the value of _GLOBAL_CONSOLE_FUNC afterwards
smart_print(values, sep, end, file, console_func, con, fails) ==
    LET formatted_str == Join([i \in 1..Len(values) |-> PyStr(values[i])], sep) \o end
        sel == UsedFunc(console_func, con)
        invoked == IF sel.used = None THEN <<>>
                   ELSE <<ConsoleFunc_call(sel.used, formatted_str, fails)>>
    IN  [formatted |-> formatted_str, path |-> sel.path, used |-> sel.used,
         calls |-> invoked,
         writes |-> IF sel.used = None \/ ~invoked[1].returned
                    THEN _default_print(formatted_str, file) ELSE <<>>,
         global |-> sel.global]

---------------------------------------------------------------------------
(* draw/utils.py: render_image.  An image is [mode |-> "L" | "RGB",        *)
(* px |-> rows]: a row is a sequence of pixels, a pixel of an "L" image a  *)
(* value 0..255 and a pixel of an "RGB" image a triple of such values.     *)
(* np.array(img) holds them as uint8: indexing a 2-D array gives a uint8   *)
(* scalar, indexing a 3-D array a 1-D array of three uint8 scalars.        *)

MaxH == 3           \* the tallest image
MaxW == 2           \* the widest image

U2580 == "U2580"

\* The modes with one more name let through
VALID_MODES_Lenient == {"ascii", "color", "half-color", "gray", "half-gray", "sepia"}

VALID_MODES == {"ascii", "color", "half-color", "gray", "half-gray"}

DefaultCharset == <<"@", "%", "#", "*", "+", "=", "-", ":", ".", " ">>

\* np.array(img.convert("L")) for an image that is in mode "L" already: the
\* gray modes and ascii are run on single-channel images
ConvertL(image) == image.px

\* pixel_arr[y][x] as the Python object indexing yields, for an array of ndim
\* dimensions (2 for gray values, 3 for RGB triples)
PixelObject(p, ndim) ==
    IF ndim = 2 THEN [t |-> "uint8", v |-> p]
    ELSE [t |-> "ndarray", v |-> [i \in 1..Len(p) |-> [t |-> "uint8", v |-> p[i]]]]

\* (n, n, n) for n = int(pixel)
IntTriple(p) == [t |-> "tuple", v |-> <<IntV(p), IntV(p), IntV(p)>>]

\* (pixel_val, pixel_val, pixel_val) of the uint8 scalar itself
ScalarTriple(p) ==
    [t |-> "tuple", v |-> <<PixelObject(p, 2), PixelObject(p, 2), PixelObject(p, 2)>>]

\* range(0, height, 2), the rows 0-based
HalfRowStarts_Pairs(height) == [k \in 1..(height \div 2) |-> 2 * (k - 1)]

HalfRowStarts(height) == [k \in 1..((height + 1) \div 2) |-> 2 * (k - 1)]

\* One cell of a half-block line: ctext("▀", fg=fore, bg=back)
HalfCell(upper, lower, has_lower, is_color, ndim) ==
    LET fore == IF is_color THEN PixelObject(upper, ndim) ELSE IntTriple(upper)
        back == IF has_lower THEN (IF is_color THEN PixelObject(lower, ndim) ELSE IntTriple(lower))
                ELSE None
    IN  ctext(StrV(<<U2580>>), fore, back, None).obj

\* The inner loop over x of the half-block branch, from column x on (1-based):
\* line_str += ctext(...)
RECURSIVE HalfLine(_, _, _, _, _, _, _)
HalfLine(line_str, upper_row, lower_row, has_lower, is_color, ndim, x) ==
    IF x > Len(upper_row) THEN line_str
    ELSE HalfLine(BinaryAdd(line_str, HalfCell(upper_row[x], IF has_lower THEN lower_row[x] ELSE 0,
                                               has_lower, is_color, ndim)),
                  upper_row, lower_row, has_lower, is_color, ndim, x + 1)

\* The out_lines of the half-block branch
HalfLines(pixel_arr, is_color, ndim) ==
    LET height == Len(pixel_arr)
        starts == HalfRowStarts(height)
    IN  [k \in 1..Len(starts) |->
            LET y == starts[k]
                has_lower == (y + 1) < height
            IN  HalfLine(StrV(<<>>), pixel_arr[y + 1],
                         IF has_lower THEN pixel_arr[y + 2] ELSE <<>>, has_lower, is_color, ndim, 1)]

\* The greatest and the least value of a 2-D array
ArrMax(pixel_arr) ==
    CHOOSE m \in 0..255 :
        /\ \E y \in 1..Len(pixel_arr) : \E x \in 1..Len(pixel_arr[y]) : pixel_arr[y][x] = m
        /\ \A y \in 1..Len(pixel_arr) : \A x \in 1..Len(pixel_arr[y]) : pixel_arr[y][x] <= m

ArrMin(pixel_arr) ==
    CHOOSE m \in 0..255 :
        /\ \E y \in 1..Len(pixel_arr) : \E x \in 1..Len(pixel_arr[y]) : pixel_arr[y][x] = m
        /\ \A y \in 1..Len(pixel_arr) : \A x \in 1..Len(pixel_arr[y]) : pixel_arr[y][x] >= m

\* The index scaled by the length of the charset instead of its last index
AsciiIndex_ByLength(p, lo, hi, n) ==
    IF hi = lo THEN 0 ELSE (((p - lo) * n) % 256) \div (hi - lo)

\* indices[y][x] of the ascii branch, in the uint8 arithmetic of the array
AsciiIndex(p, lo, hi, n) ==
    IF hi = lo THEN 0 ELSE (((p - lo) * (n - 1)) % 256) \div (hi - lo)

\* The out_lines of the ascii branch: [raised, lines]
AsciiLines(pixel_arr, charset) ==
    LET lo == ArrMin(pixel_arr)
        hi == ArrMax(pixel_arr)
        n == Len(charset)
        index == [y \in 1..Len(pixel_arr) |->
                    [x \in 1..Len(pixel_arr[y]) |-> AsciiIndex(pixel_arr[y][x], lo, hi, n)]]
    IN  IF \E y \in 1..Len(index) : \E x \in 1..Len(index[y]) : index[y][x] >= n THEN
            [raised |-> TRUE, lines |-> <<>>]       \* IndexError
        ELSE [raised |-> FALSE,
              lines |-> [y \in 1..Len(index) |->
                            StrV([x \in 1..Len(index[y]) |-> charset[index[y][x] + 1]])]]

\* The loop over a row of the full-block branch: line_str += ctext(" ", bg=...)
RECURSIVE BlockLine(_, _, _, _, _)
BlockLine(line_str, row, is_color, ndim, x) ==
    IF x > Len(row) THEN line_str
    ELSE BlockLine(BinaryAdd(line_str,
                             ctext(StrV(<<" ">>), None,
                                   IF is_color THEN PixelObject(row[x], ndim) ELSE ScalarTriple(row[x]),
                                   None).obj),
                   row, is_color, ndim, x + 1)

\* sep.join(lines): str.join takes the contents of the str objects
StrJoin(sep, lines) == StrV(Join([i \in 1..Len(lines) |-> lines[i].v], sep))

\* render_image(img, mode, charset, display): [raised, out] and the strings
\* handed to smart_print
render_image(image, mode, charset, display) ==
    IF mode \notin VALID_MODES THEN [raised |-> TRUE, out |-> None, shown |-> <<>>]
    ELSE
        LET is_color == mode \in {"color", "half-color"}
            pixel_arr == IF is_color THEN image.px ELSE ConvertL(image)
            ndim == IF is_color /\ image.mode = "RGB" THEN 3 ELSE 2
            body ==
                IF mode \in {"half-color", "half-gray"} THEN
                    [raised |-> FALSE, lines |-> HalfLines(pixel_arr, is_color, ndim)]
                ELSE IF mode = "ascii" THEN AsciiLines(pixel_arr, charset)
                ELSE [raised |-> FALSE,
                      lines |-> [y \in 1..Len(pixel_arr) |->
                                    BlockLine(StrV(<<>>), pixel_arr[y], is_color, ndim, 1)]]
        IN  IF body.raised THEN [raised |-> TRUE, out |-> None, shown |-> <<>>]
            ELSE LET output_str == StrJoin(<<NL>>, body.lines)
                 IN  [raised |-> FALSE, out |-> output_str,
                      shown |-> IF display THEN <<output_str>> ELSE <<>>]

GrayLevels == {0, 255}
RGBLevels == {<<0, 0, 0>>, <<255, 128, 7>>}

MaxPalette == 3     \* the most pixel values laid out in one grid

\* The pixel sequences of up to MaxPalette values
PalettesOver(levels) == UNION {[1..k -> levels] : k \in 1..MaxPalette}

\* The h x w grid that repeats the values of pal, row by row
PaletteGrid(pal, h, w) ==
    [y \in 1..h |-> [x \in 1..w |-> pal[(((y - 1) * w + (x - 1)) % Len(pal)) + 1]]]

Grids(levels) ==
    {PaletteGrid(pal, h, w) : pal \in PalettesOver(levels), h \in 1..MaxH, w \in 1..MaxW}

GrayImages == {[mode |-> "L", px |-> g] : g \in Grids(GrayLevels)}
ColorImages == {[mode |-> "RGB", px |-> g] : g \in Grids(RGBLevels)}

\* The images a mode is run on: RGB grids for the colour modes, single-channel
\* grids for the gray modes and ascii, both for a mode that is rejected
KindsFor(mode) ==
    IF mode \in {"color", "half-color"} THEN {"RGB"}
    ELSE IF mode \in VALID_MODES THEN {"L"}
    ELSE {"L", "RGB"}

ImagesOf(kind) == IF kind = "L" THEN GrayImages ELSE ColorImages

\* The console states a render run starts in: no library and no sink; rich
\* imported; tqdm imported with a bar open; a sink registered
BareConsole ==
    [t |-> "console", _GLOBAL_CONSOLE_FUNC |-> None, tqdm |-> FALSE, bars |-> 0, rich |-> FALSE]

RenderConsoles ==
    {BareConsole,
     [BareConsole EXCEPT !.rich = TRUE],
     [BareConsole EXCEPT !.tqdm = TRUE, !.bars = 1],
     [BareConsole EXCEPT !.rich = TRUE, !._GLOBAL_CONSOLE_FUNC = set_console_func(KeywordSink, {})]}

ImageInit ==
    /\ \E mode \in VALID_MODES \cup {"sepia"}, display \in BOOLEAN :
       \E kind \in KindsFor(mode) : \E image \in ImagesOf(kind) :
        img = [t |-> "render", image |-> image, mode |-> mode, charset |-> DefaultCharset, display |-> display]
    /\ console \in RenderConsoles
    /\ rendered = Idle
    /\ args = Idle /\ call = Idle
    /\ cur = Idle /\ last = Idle
    /\ tpl = Idle /\ made = Idle /\ applied = Idle
    /\ printed = Idle /\ target = Idle /\ line = Idle

\* The end of render_image with display set (utils.py 117-118): p is what
\* smart_print(output_str) did, fails being the sink raising
Displayed(values, fails, p) ==
    /\ console' = [console EXCEPT !._GLOBAL_CONSOLE_FUNC = p.global]
    /\ printed' = [t |-> "print", values |-> values, sep |-> <<" ">>,
                   end |-> <<NL>>, console_func |-> None, file |-> None,
                   fails |-> fails, con |-> console,
                   formatted |-> p.formatted, path |-> p.path,
                   used |-> p.used, calls |-> p.calls,
                   writes |-> p.writes, raised |-> FALSE]

\* What a call of render_image with the outcome r leaves behind
Returned(r) ==
    /\ rendered' = [t |-> "rendered", raised |-> r.raised, out |-> r.out, shown |-> r.shown]
    /\ IF r.shown = <<>> THEN UNCHANGED <<console, printed>>
       ELSE \E fails \in BOOLEAN :
             Displayed(r.shown, fails,
                       smart_print(r.shown, <<" ">>, <<NL>>, None, None, console, fails))

\* render_image(img, mode, charset, display); with display set and the mode
\* accepted it ends in smart_print(output_str)
Render ==
    /\ rendered = Idle
    /\ Returned(render_image(img.image, img.mode, img.charset, img.display))
    /\ UNCHANGED <<img, args, call, cur, last, tpl, made, applied, target, line>>

ImageNext == Render

SpecImage == ImageInit /\ [][ImageNext]_vars

---------------------------------------------------------------------------
(* Claims on render_image in the half-block modes.                         *)

IsHalfRun == img.t = "render" /\ img.mode \in {"half-color", "half-gray"}

\* The colour of a pixel as the three numbers of an escape code
ChannelsOf(p, mode) ==
    IF mode = "half-gray" THEN Dec(p) \o <<";">> \o Dec(p) \o <<";">> \o Dec(p)
    ELSE Dec(p[1]) \o <<";">> \o Dec(p[2]) \o <<";">> \o Dec(p[3])

\* The cell of output row k and column x: the upper half block with pixel
\* (2k, x) as foreground and pixel (2k+1, x), when the grid has that row, as
\* background (rows and columns here 1-based: rows 2k-1 and 2k)
CellAsClaimed(px, mode, k, x) ==
    <<"ESC", "[", "3", "8", ";", "2", ";">> \o ChannelsOf(px[2 * k - 1][x], mode)
    \o (IF 2 * k <= Len(px)
        THEN <<";", "4", "8", ";", "2", ";">> \o ChannelsOf(px[2 * k][x], mode) ELSE <<>>)
    \o <<"m", U2580, "ESC", "[", "0", "m">>

HalfBlockAsClaimed(px, mode) ==
    Join([k \in 1..((Len(px) + 1) \div 2) |->
            Concat([x \in 1..Len(px[1]) |-> CellAsClaimed(px, mode, k, x)])], <<NL>>)

\* C9 (as claimed): in mode half-color or half-gray the cell of output row k and
\* column x is U+2580 wrapped in an escape sequence with the colour of pixel
\* (2k, x) as foreground and that of pixel (2k+1, x) as background, a gray
\* value v taken as (v, v, v).
C9_HalfBlockCellColors ==
    (IsHalfRun /\ rendered.t = "rendered")
        => /\ ~rendered.raised
           /\ rendered.out.v = HalfBlockAsClaimed(img.image.px, img.mode)

\* text.split(sep) for a single character sep
RECURSIVE Split(_, _)
Split(text, sep) ==
    IF \A i \in 1..Len(text) : text[i] # sep THEN <<text>>
    ELSE LET i == CHOOSE j \in 1..Len(text) : text[j] = sep /\ \A m \in 1..(j - 1) : text[m] # sep
         IN  <<SubSeq(text, 1, i - 1)>> \o Split(SubSeq(text, i + 1, Len(text)), sep)

\* A text without its escape sequences ESC[ ... m
RECURSIVE Visible(_)
Visible(text) ==
    IF text = <<>> THEN <<>>
    ELSE IF text[1] = "ESC" THEN
        LET i == CHOOSE j \in 1..Len(text) : text[j] = "m" /\ \A m \in 1..(j - 1) : text[m] # "m"
        IN  Visible(SubSeq(text, i + 1, Len(text)))
    ELSE <<text[1]>> \o Visible(Tail(text))

\* A background parameter 48;... in an escape sequence of the text
HasBackground(text) ==
    \E i \in 1..(Len(text) - 3) :
        text[i] \in {"[", ";"} /\ text[i + 1] = "4" /\ text[i + 2] = "8" /\ text[i + 3] = ";"

\* C10: for a grid of height h >= 1 and width w >= 1 in mode half-color or
\* half-gray render_image raises nothing and returns ceil(h/2) rows separated
\* by newlines; the visible text of each row is w copies of U+2580, and for an
\* odd h no cell of the last row has a background code.
C10_HalfBlockRows ==
    (IsHalfRun /\ rendered.t = "rendered")
        => /\ ~rendered.raised
           /\ rendered.out.t = "str"
           /\ LET h == Len(img.image.px)
                  w == Len(img.image.px[1])
                  rows == Split(rendered.out.v, NL)
              IN  /\ Len(rows) = (h + 1) \div 2
                  /\ 2 * Len(rows) \in {h, h + 1}
                  /\ \A k \in 1..Len(rows) : Visible(rows[k]) = [x \in 1..w |-> U2580]
                  /\ h % 2 = 1 => ~HasBackground(rows[Len(rows)])

\* A 3 x 2 gray grid rendered in half-gray as two rows of two cells
C10_Witness ==
    /\ IsHalfRun /\ rendered.t = "rendered" /\ ~rendered.raised
    /\ img.mode = "half-gray"
    /\ img.image.px = << <<0, 255>>, <<255, 0>>, <<255, 255>> >>
    /\ Len(Split(rendered.out.v, NL)) = 2
    /\ Visible(rendered.out.v) = <<U2580, U2580, NL, U2580, U2580>>

---------------------------------------------------------------------------
(* Claims on render_image in the full-block modes.                         *)

IsBlockRun == img.t = "render" /\ img.mode \in {"color", "gray"}

\* The unit of pixel p: a space on the background colour of the pixel
UnitAsClaimed(p, mode) ==
    <<"ESC", "[", "4", "8", ";", "2", ";">>
    \o (IF mode = "gray" THEN Dec(p) \o <<";">> \o Dec(p) \o <<";">> \o Dec(p)
        ELSE Dec(p[1]) \o <<";">> \o Dec(p[2]) \o <<";">> \o Dec(p[3]))
    \o <<"m", " ", "ESC", "[", "0", "m">>

FullBlockAsClaimed(px, mode) ==
    Join([y \in 1..Len(px) |->
            Concat([x \in 1..Len(px[y]) |-> UnitAsClaimed(px[y][x], mode)])], <<NL>>)

\* C11 (as claimed): in mode color or gray the output of an h x w grid has h
\* rows, each the concatenation of w units ESC[48;2;r;g;bm + ' ' + ESC[0m,
\* (r, g, b) the pixel's RGB value in color mode and (v, v, v) for its gray
\* value v in gray mode.
C11_FullBlockUnits ==
    (IsBlockRun /\ rendered.t = "rendered")
        => /\ ~rendered.raised
           /\ rendered.out.v = FullBlockAsClaimed(img.image.px, img.mode)

---------------------------------------------------------------------------
(* The ascii mode on single-channel grids of several gray levels and       *)
(* charsets of several lengths.                                            *)

\* Gray values on both sides of the products that pass 255 for the charsets below
AsciiLevels == {0, 1, 29, 255}

\* A charset of n different characters
Charset(n) == [i \in 1..n |-> "c" \o ToString(i - 1)]

Charsets == {DefaultCharset} \cup {Charset(n) : n \in {1, 2, 256}}

Palettes == PalettesOver(AsciiLevels)

AsciiInit ==
    /\ \E pal \in Palettes, h \in 1..MaxH, w \in 1..MaxW, charset \in Charsets :
        img = [t |-> "render", image |-> [mode |-> "L", px |-> PaletteGrid(pal, h, w)],
               mode |-> "ascii", charset |-> charset, display |-> FALSE]
    /\ rendered = Idle
    /\ args = Idle /\ call = Idle
    /\ cur = Idle /\ last = Idle
    /\ tpl = Idle /\ made = Idle /\ applied = Idle
    /\ console = BareConsole
    /\ printed = Idle /\ target = Idle /\ line = Idle

SpecAscii == AsciiInit /\ [][ImageNext]_vars

IsAsciiRun == img.t = "render" /\ img.mode = "ascii"

\* The character of pixel p under the linear rescaling of [lo, hi] onto the
\* indices 0..L-1 of the charset
CharAsClaimed(p, lo, hi, charset) ==
    IF lo = hi THEN charset[1]
    ELSE charset[(((p - lo) * (Len(charset) - 1)) \div (hi - lo)) + 1]

\* C12 (as claimed): in mode ascii each pixel p gives the character
\* charset[floor((p - min) * (L - 1) / (max - min))], min and max the least
\* and greatest value of the grid (charset[0] for every pixel when they are
\* equal), one character per pixel and the rows joined by newlines.
C12_AsciiLuminance ==
    (IsAsciiRun /\ rendered.t = "rendered")
        => /\ ~rendered.raised
           /\ LET px == img.image.px
                  lo == ArrMin(px)
                  hi == ArrMax(px)
              IN  rendered.out.v =
                    Join([y \in 1..Len(px) |->
                            [x \in 1..Len(px[y]) |-> CharAsClaimed(px[y][x], lo, hi, img.charset)]],
                         <<NL>>)

\* C20: in mode ascii, for a charset of length L in 1..256, every index the
\* branch computes in the unsigned 8-bit arithmetic of the pixel array lies in
\* 0..L-1, the lookup raises nothing and every output row has one character
\* per pixel.
C20_AsciiIndexInRange ==
    (IsAsciiRun /\ rendered.t = "rendered")
        => LET px == img.image.px
               L == Len(img.charset)
               rows == Split(rendered.out.v, NL)
           IN  /\ \A y \in 1..Len(px) : \A x \in 1..Len(px[y]) :
                    AsciiIndex(px[y][x], ArrMin(px), ArrMax(px), L) \in 0..(L - 1)
               /\ ~rendered.raised
               /\ Len(rows) = Len(px)
               /\ \A y \in 1..Len(px) : Len(rows[y]) = Len(px[y])

\* A grid rendered with a product (p - min) * (L - 1) that passes 255
C20_Witness ==
    /\ IsAsciiRun /\ rendered.t = "rendered" /\ ~rendered.raised
    /\ Len(img.charset) = 10
    /\ img.image.px = << <<0, 1>>, <<255, 0>> >>
    /\ (255 - ArrMin(img.image.px)) * (Len(img.charset) - 1) > 255
    /\ Len(Split(rendered.out.v, NL)) = 2

---------------------------------------------------------------------------
(* Claim on the rejection of an unknown mode.                              *)

\* C13: render_image raises (ValueError) if and only if mode is not one of
\* ascii, color, half-color, gray, half-gray; no other call raises anything;
\* a rejected call returns no string and hands nothing to smart_print, also
\* when display is set: nothing is printed and no sink is installed.
C13_UnknownModeRejected ==
    (img.t = "render" /\ rendered.t = "rendered")
        => /\ rendered.raised <=> img.mode \notin {"ascii", "color", "half-color", "gray", "half-gray"}
           /\ rendered.raised
                => /\ rendered.out = None /\ rendered.shown = <<>>
                   /\ printed = Idle
                   /\ console \in RenderConsoles

\* A call with an unknown mode and display set was rejected where rich would
\* have supplied the sink, and nothing was printed or installed
C13_Witness ==
    /\ img.t = "render" /\ rendered.t = "rendered"
    /\ img.mode = "sepia" /\ img.display
    /\ rendered.raised /\ rendered.shown = <<>>
    /\ console.rich /\ console._GLOBAL_CONSOLE_FUNC = None
    /\ printed = Idle

---------------------------------------------------------------------------
(* The print run: set_console_func and smart_print calls, progress bars   *)
(* opening and closing.                                                    *)

PrintValues == {<<StrV(<<"a">>)>>, <<StrV(<<"a">>), IntV(7)>>}
PrintEnds == {<<NL>>, <<>>}
PrintFiles == {None, StrV("file")}
Registrations ==
    {<<PlainSink, {}>>, <<KeywordSink, {}>>, <<KeywordSink, {<<"x", "2">>}>>}
PerCallSinks == {None, PlainSink, KeywordSink, ConsoleFunc(KeywordSink, {<<"x", "2">>})}

OutputInit ==
    /\ \E has_tqdm \in BOOLEAN, has_rich \in BOOLEAN :
        console = [t |-> "console", _GLOBAL_CONSOLE_FUNC |-> None,
                   tqdm |-> has_tqdm, bars |-> 0, rich |-> has_rich]
    /\ printed = Idle
    /\ args = Idle /\ call = Idle
    /\ cur = Idle /\ last = Idle
    /\ tpl = Idle /\ made = Idle /\ applied = Idle
    /\ img = Idle /\ rendered = Idle
    /\ target = Idle /\ line = Idle

\* set_console_func(func, **kwargs)
SetConsoleFunc ==
    /\ \E r \in Registrations :
        /\ console' = [console EXCEPT !._GLOBAL_CONSOLE_FUNC = set_console_func(r[1], r[2])]
        /\ printed' = [t |-> "set", func |-> r[1], kwargs |-> r[2]]
    /\ UNCHANGED <<args, call, cur, last, tpl, made, applied, img, rendered, target, line>>

\* smart_print(*values, end=end, file=file, console_func=console_func)
SmartPrint ==
    /\ \E values \in PrintValues, end \in PrintEnds, file \in PrintFiles,
          console_func \in PerCallSinks, fails \in BOOLEAN :
        LET r == smart_print(values, <<" ">>, end, file, console_func, console, fails)
        IN  /\ console' = [console EXCEPT !._GLOBAL_CONSOLE_FUNC = r.global]
            /\ printed' = [t |-> "print", values |-> values, sep |-> <<" ">>, end |-> end,
                           console_func |-> console_func, file |-> file,
                           fails |-> fails, con |-> console, formatted |-> r.formatted,
                           path |-> r.path, used |-> r.used, calls |-> r.calls,
                           writes |-> r.writes, raised |-> FALSE]
    /\ UNCHANGED <<args, call, cur, last, tpl, made, applied, img, rendered, target, line>>

\* A progress bar is created: tqdm(...) adds it to tqdm._instances
OpenBar ==
    /\ console.tqdm /\ console.bars < MaxBars
    /\ console' = [console EXCEPT !.bars = @ + 1]
    /\ UNCHANGED <<printed, args, call, cur, last, tpl, made, applied, img, rendered, target, line>>

\* A progress bar is closed and leaves tqdm._instances
CloseBar ==
    /\ console.tqdm /\ console.bars > 0
    /\ console' = [console EXCEPT !.bars = @ - 1]
    /\ UNCHANGED <<printed, args, call, cur, last, tpl, made, applied, img, rendered, target, line>>

OutputNext == SetConsoleFunc \/ SmartPrint \/ OpenBar \/ CloseBar

SpecOutput == OutputInit /\ [][OutputNext]_vars

---------------------------------------------------------------------------
(* Claims on smart_print and the global sink.                              *)

IsPrint == printed.t = "print"

\* The stream _default_print writes to: file, else standard output
FallbackStream(file) == IF file = None THEN "stdout" ELSE file.v

\* C14: whichever sink a smart_print call selected, the sink is invoked at
\* most once; if it raises, exactly one direct write goes to the fallback
\* stream (file, else standard output) and smart_print returns normally; if it
\* returns normally no fallback write is made.
C14_SinkFailureFallback ==
    IsPrint
        => /\ ~printed.raised
           /\ Len(printed.calls) <= 1
           /\ (printed.calls # <<>> /\ ~printed.calls[1].returned)
                => /\ Len(printed.writes) = 1
                   /\ printed.writes[1].stream = FallbackStream(printed.file)
           /\ (printed.calls # <<>> /\ printed.calls[1].returned) => printed.writes = <<>>

\* The progress-bar write raised and the string was written to the given file
C14_Witness ==
    /\ IsPrint /\ printed.path = "tqdm" /\ printed.fails
    /\ printed.file # None
    /\ Len(printed.calls) = 1 /\ ~printed.calls[1].returned
    /\ Len(printed.writes) = 1 /\ printed.writes[1].stream = "file"

\* A callable that accepts a single string argument
TakesOneString(func) == func \in {PlainSink, KeywordSink}

\* The one call f(formatted_str, **kwargs) that returned
OneCall(func, formatted_str, kwargs) ==
    <<[func |-> func, arg |-> formatted_str, kwargs |-> kwargs, returned |-> TRUE]>>

\* C15 (as claimed): a callable f that accepts a single string argument, passed
\* per call as console_func or registered with set_console_func(f, **kw), is
\* invoked exactly once with the formatted string as its only positional
\* argument and exactly the keyword arguments bound at registration (none if
\* none were bound), and no fallback write is made.
C15_SinkCallShape ==
    /\ (IsPrint /\ printed.console_func # None /\ printed.console_func.t = "func"
            /\ TakesOneString(printed.console_func) /\ ~printed.fails)
        => /\ printed.calls = OneCall(printed.console_func, printed.formatted, {})
           /\ printed.writes = <<>>
    /\ (IsPrint /\ printed.path = "global" /\ printed.con._GLOBAL_CONSOLE_FUNC # None
            /\ TakesOneString(printed.con._GLOBAL_CONSOLE_FUNC.func)
            /\ Accepts(printed.con._GLOBAL_CONSOLE_FUNC.func, printed.con._GLOBAL_CONSOLE_FUNC.kwargs)
            /\ ~printed.fails)
        => /\ printed.calls = OneCall(printed.con._GLOBAL_CONSOLE_FUNC.func, printed.formatted,
                                      printed.con._GLOBAL_CONSOLE_FUNC.kwargs)
           /\ printed.writes = <<>>

\* C16: a smart_print call selects one destination: the per-call console_func
\* if given; otherwise the progress-bar write if a bar is active, also when a
\* global sink is configured; otherwise the global sink, configured or
\* defaulted to the rich console print when that library is there; otherwise a
\* direct write. The direct write is also made when the selected sink raised,
\* and only then.
C16_SinkSelectionOrder ==
    IsPrint
        => LET c == printed.con
               g == c._GLOBAL_CONSOLE_FUNC
           IN  /\ Len(printed.calls) <= 1
               /\ IF printed.console_func # None THEN
                      /\ Len(printed.calls) = 1
                      /\ printed.calls[1].func =
                            (IF printed.console_func.t = "ConsoleFunc"
                             THEN printed.console_func.func ELSE printed.console_func)
                  ELSE IF c.tqdm /\ c.bars > 0 THEN
                      Len(printed.calls) = 1 /\ printed.calls[1].func = TqdmWrite
                  ELSE IF g # None THEN
                      Len(printed.calls) = 1 /\ printed.calls[1].func = g.func
                  ELSE IF c.rich THEN
                      Len(printed.calls) = 1 /\ printed.calls[1].func = ConsolePrint
                  ELSE printed.calls = <<>> /\ Len(printed.writes) = 1
               /\ printed.writes # <<>>
                    <=> (printed.calls = <<>> \/ ~printed.calls[1].returned)

\* With a global sink configured and a bar active the progress-bar write was used
C16_Witness ==
    /\ IsPrint /\ printed.console_func = None
    /\ printed.con._GLOBAL_CONSOLE_FUNC # None /\ printed.con.bars > 0
    /\ Len(printed.calls) = 1 /\ printed.calls[1].func = TqdmWrite
    /\ printed.calls[1].returned /\ printed.writes = <<>>

RichDefault ==
    ConsoleFunc(ConsolePrint, {<<"end", "">>, <<"markup", "False">>, <<"highlight", "False">>})

\* C17: the global sink reference changes only through set_console_func or
\* through the lazy default, taken when it is unset, rich is there and a print
\* reaches the global path; once set it is never unset; the lazy default never
\* replaces a configured sink; a print that uses a per-call console_func or
\* the progress-bar write leaves it unchanged; a print that reaches the global
\* path with a sink f configured with kw invokes f with kw.
C17_GlobalSinkLifecycle ==
    [][LET g == console._GLOBAL_CONSOLE_FUNC
           h == console'._GLOBAL_CONSOLE_FUNC
       IN  /\ h # g
                => \/ /\ printed'.t = "set"
                      /\ h = ConsoleFunc(printed'.func, printed'.kwargs)
                   \/ /\ g = None /\ console.rich
                      /\ printed'.t = "print" /\ printed'.con = console
                      /\ printed'.path = "global"
                      /\ h = RichDefault
           /\ g # None => h # None
           /\ (printed' # printed /\ printed'.t = "print"
                    /\ printed'.path \in {"console_func", "tqdm"}) => h = g
           /\ (printed' # printed /\ printed'.t = "print" /\ printed'.path = "global" /\ g # None)
                => /\ h = g
                   /\ Len(printed'.calls) = 1
                   /\ printed'.calls[1].func = g.func
                   /\ printed'.calls[1].kwargs = g.kwargs
                   /\ printed'.calls[1].arg = printed'.formatted
      ]_vars

\* A print reached the global path and invoked the registered sink with its
\* bound keyword argument, rich being there
C17_Witness ==
    /\ IsPrint /\ printed.path = "global" /\ printed.con.rich
    /\ printed.con._GLOBAL_CONSOLE_FUNC = ConsoleFunc(KeywordSink, {<<"x", "2">>})
    /\ console._GLOBAL_CONSOLE_FUNC = ConsoleFunc(KeywordSink, {<<"x", "2">>})
    /\ Len(printed.calls) = 1 /\ printed.calls[1].kwargs = {<<"x", "2">>}
    /\ printed.calls[1].returned

---------------------------------------------------------------------------
(* Claim on the str methods of a ColorStr.                                 *)

\* C18 (as claimed): for a ColorStr s with iscombined() false, built by ctext,
\* by apply_to or as the result of a repetition, a str method that returns a
\* string raises nothing and returns a ColorStr whose plain view is the result
\* of the method on s.plain and whose codes are those of the segment of s.
C18_MethodsKeepFormatting ==
    (last.t = "op" /\ last.op = "method" /\ ~iscombined(last.x))
        => /\ ~last.raised
           /\ last.res.t = "ColorStr"
           /\ plain(last.res) = StrMethod(last.name, plain(last.x))
           /\ Len(last.res.segs) = 1
           /\ Len(last.x.segs) = 1
                => /\ last.res.segs[1][2] = last.x.segs[1][2]
                   /\ last.res.segs[1][3] = last.x.segs[1][3]

---------------------------------------------------------------------------
(* format.py: the key of one attribute in fmt_dict, for a target that is   *)
(* an object. The attribute names are those Python stores in __dict__: a   *)
(* name __x written in the body of class K is stored as _K__x.             *)

MaxName == 2        \* the longest parameter name

\* key.startswith(prefix)
StartsWith(key, prefix) ==
    Len(key) >= Len(prefix) /\ SubSeq(key, 1, Len(prefix)) = prefix

\* key.lstrip(chars): the leading characters that occur in chars are removed
RECURSIVE LStripChars(_, _)
LStripChars(key, chars) ==
    IF key # <<>> /\ (\E i \in 1..Len(chars) : chars[i] = key[1])
    THEN LStripChars(Tail(key), chars) ELSE key

\* key.split("__")[-1]
RECURSIVE LastSplit(_)
LastSplit(key) ==
    IF \E i \in 1..(Len(key) - 1) : key[i] = "_" /\ key[i + 1] = "_" THEN
        LET i == CHOOSE j \in 1..(Len(key) - 1) :
                    /\ key[j] = "_" /\ key[j + 1] = "_"
                    /\ \A m \in 1..(j - 1) : ~(key[m] = "_" /\ key[m + 1] = "_")
        IN  LastSplit(SubSeq(key, i + 2, Len(key)))
    ELSE key

\* The entry of fmt_dict for one key of an object of class class_name with
\* the bases father_classes: the template chosen and the label it is given
fmt_dict(class_name, father_classes, key) ==
    LET own == <<"_">> \o class_name \o <<"_", "_">>
        chosen ==
            IF StartsWith(key, <<"_">>) THEN
                IF StartsWith(key, own) THEN
                    [key_temp |-> "key_class_private", param_name |-> LStripChars(key, own)]
                ELSE IF \E f \in 1..Len(father_classes) :
                            StartsWith(key, <<"_">> \o father_classes[f] \o <<"_", "_">>) THEN
                    [key_temp |-> "key_inherited_private", param_name |-> LastSplit(key)]
                ELSE [key_temp |-> "key_protected", param_name |-> LStripChars(key, <<"_">>)]
            ELSE [key_temp |-> "key_param", param_name |-> key]
    IN  [key_temp |-> chosen.key_temp, param_name |-> chosen.param_name,
         label |-> <<"[">> \o chosen.param_name \o <<"]">>]

\* The classes of the format run: class A, and class B(A)
FormatClasses ==
    {[name |-> <<"A">>, bases |-> << <<"o", "b", "j", "e", "c", "t">> >>],
     [name |-> <<"B">>, bases |-> << <<"A">> >>]}

ParamNames == UNION {[1..k -> {"A", "B", "c"}] : k \in 1..MaxName}

\* The key under which an attribute is stored: self.x, self._x, and self.__x
\* written in the class itself or in its base
StoredKey(cls, kind, x) ==
    CASE kind = "public" -> x
      [] kind = "protected" -> <<"_">> \o x
      [] kind = "own" -> <<"_">> \o cls.name \o <<"_", "_">> \o x
      [] kind = "inherited" -> <<"_">> \o cls.bases[1] \o <<"_", "_">> \o x

FormatInit ==
    /\ \E cls \in FormatClasses, kind \in {"public", "protected", "own", "inherited"},
          x \in ParamNames :
        /\ kind = "inherited" => cls.bases[1] = <<"A">>
        /\ target = [t |-> "target", class_name |-> cls.name, father_classes |-> cls.bases,
                     kind |-> kind, x |-> x, key |-> StoredKey(cls, kind, x)]
    /\ line = Idle
    /\ args = Idle /\ call = Idle
    /\ cur = Idle /\ last = Idle
    /\ tpl = Idle /\ made = Idle /\ applied = Idle
    /\ img = Idle /\ rendered = Idle
    /\ console = Idle /\ printed = Idle

\* fmt_dict(obj, display=False), the line of the key
FmtDict ==
    /\ line = Idle
    /\ LET r == fmt_dict(target.class_name, target.father_classes, target.key)
       IN  line' = [t |-> "line", key_temp |-> r.key_temp, param_name |-> r.param_name,
                    label |-> r.label]
    /\ UNCHANGED <<target, args, call, cur, last, tpl, made, applied, img, rendered, console, printed>>

FormatNext == FmtDict

SpecFormat == FormatInit /\ [][FormatNext]_vars

\* The template of each class of key
TemplateOfKind(kind) ==
    CASE kind = "public" -> "key_param"
      [] kind = "protected" -> "key_protected"
      [] kind = "own" -> "key_class_private"
      [] kind = "inherited" -> "key_inherited_private"

\* C19 (as claimed): for an object of class C with bases B1..Bk a key _C__x is
\* own-type private, a key _Bi__x inherited private, another key starting with
\* _ protected, each shown as [x]; every other key is public and shown
\* unchanged. The label never loses characters of the parameter name x.
C19_KeyClasses ==
    (target.t = "target" /\ line.t = "line")
        => /\ line.key_temp = TemplateOfKind(target.kind)
           /\ line.label = <<"[">> \o target.x \o <<"]">>

---------------------------------------------------------------------------
(* Claim on the plain view.                                                *)

\* The ColorStr objects of a state: the one the session is bound to and the
\* result of the last operation
Built == {x \in {cur} \cup (IF last.t = "op" THEN {last.res} ELSE {}) : x.t = "ColorStr"}

\* C21 (as claimed): every ColorStr reached by ctext, template format,
\* apply_to, concatenation and repetition from texts without ESC, the text
\* argument possibly a ColorStr built before, has no ESC in its plain view, and
\* its length as a str is the number of its visible characters.
C21_PlainIsEscapeFree ==
    \A s \in Built :
        /\ \A i \in 1..Len(plain(s)) : plain(s)[i] # ESC
        /\ Len(s.v) = Len(Visible(rich(s)))

---------------------------------------------------------------------------
(* Claim on the text smart_print delivers.                                 *)

\* sep.join(str(v) for v in values) followed by end, once
TextAsClaimed(values, sep, end) ==
    Join([i \in 1..Len(values) |-> PyStr(values[i])], sep) \o end

\* C22 (as claimed): the character sequence smart_print delivers is
\* sep.join(str(v) for v in values) followed by end exactly once, the same
\* whether it goes through a sink that succeeds, through the fallback write
\* after a sink failure, or through the direct write made when there is no sink.
C22_SameTextOnEveryPath ==
    IsPrint
        => LET text == TextAsClaimed(printed.values, printed.sep, printed.end)
           IN  /\ (printed.calls # <<>> /\ printed.calls[1].returned)
                    => printed.calls[1].arg = text
               /\ \A i \in 1..Len(printed.writes) : printed.writes[i].text = text

=============================================================================
